---------------------------- MODULE Spec2Model ----------------------------
(***************************************************************************)
(* A model of eyemodule.py: the EyeModule class that reads the three       *)
(* eyemodule .pdb containers, builds its record-offset dictionaries, and   *)
(* serves headers and decoded images around a "current image" cursor.      *)
(*                                                                         *)
(* The three containers are inputs: their relevant bytes are variables     *)
(* that Init draws from small sets and that no action changes.  The object *)
(* is built by Construct (__init__); afterwards the public methods are     *)
(* called in any order with any argument.  Every call records what it was  *)
(* (op, arg), the cursor it started from (old_cur) and what it returned or *)
(* raised (res).  The directories extract_image makes and the image files  *)
(* it saves are outputs, not state; the note text it writes is kept.       *)
(***************************************************************************)
EXTENDS Integers, Sequences, FiniteSets, TLC

VARIABLES
    \* ---- the main container, eyemoduleDB.pdb
    mainRecs,       \* its record list: a sequence of [off, attr] entries
    appinfo_start,  \* the u32 at byte 52
    nameSlots,      \* how many non-empty 16-byte name slots follow appinfo_start + 2
    hdrAt,          \* what the 58 bytes at each data offset hold
    \* ---- the colour container, eyemoduleVGADB.pdb
    vgaCnt,         \* the u16 at byte 76
    vgaRecs,        \* vgaRecs[k + 1] is physical record 24 * k: [off, uid]
    vgaAvail,       \* bytes between a payload offset and the end of the file
    \* ---- the note container, eyemoduleNoteDB.pdb
    noteRecs,       \* its record list: a sequence of [off, uid] entries
    noteTail,       \* the bytes from a note's offset to the end of the file
    \* ---- what is wrong with the files, if anything
    fault,          \* "none", or the open or the preamble read that fails
    \* ---- the EyeModule object
    phase,          \* "new" | "ready" | "failed" | "deleted"
    err,            \* the exception __init__ raised, "" if none
    record_cnt, rec_data_offset_dict, images, category_names,
    rec_data_offset_vga_dict, rec_data_offset_note_dict,
    cur_image,
    emDB_fd, emVGADB_fd, emNoteDB_fd,   \* "None" | "open" | "closed"
    \* ---- the last call
    op, arg, old_cur, res,
    \* ---- one run of a pixel decoder (SpecColor, SpecGray)
    dec,
    \* ---- the note loop of extract_image
    note

fdVars == <<emDB_fd, emVGADB_fd, emNoteDB_fd>>
catalogVars == <<phase, err, record_cnt, rec_data_offset_dict, images,
                 category_names, rec_data_offset_vga_dict,
                 rec_data_offset_note_dict, cur_image, fdVars>>
fileVars == <<mainRecs, appinfo_start, nameSlots, hdrAt, vgaCnt, vgaRecs,
              vgaAvail, noteRecs, noteTail, fault>>
callVars == <<op, arg, old_cur, res>>
vars == <<fileVars, catalogVars, callVars, dec, note>>

-----------------------------------------------------------------------------
(* Bounds of the model. *)

\* The longest record list of the main container.
MaxRecs == 3
\* Explicit image numbers run from -NegArgs to MaxRecs + 1.
NegArgs == 2
\* The most payload bytes one grayscale decode is fed under SpecGray.
MaxGrayBytes == 2
\* The most bytes between a note's offset and the end of the note container.
MaxNoteBytes == 3

(* Program constants. *)
HEADER_LENGTH == 58
COLOR_PAYLOAD == 153696
PDB_LIST_INFO == 6404
VGA_STRIDE == 24
VGA_SKIP == 184
\* Where a record list starts: after the u16 read at byte 76.
RECORD_LIST_START == 78
RECORD_SIZE == 8
NAME_SLOT == 16

-----------------------------------------------------------------------------
(* Python helpers. *)

RECURSIVE BitAnd(_, _)
\* x & y on non-negative integers.
BitAnd(x, y) ==
    IF x = 0 \/ y = 0 THEN 0
    ELSE (IF x % 2 = 1 /\ y % 2 = 1 THEN 1 ELSE 0) + 2 * BitAnd(x \div 2, y \div 2)

\* s[i] on a list: a negative i counts from the end.
PyIndexOK(s, i) == i < Len(s) /\ i >= 0 - Len(s)
PyIndex(s, i) == IF i >= 0 THEN s[i + 1] ELSE s[Len(s) + i + 1]

Min(a, b) == IF a < b THEN a ELSE b

\* The elements of a sequence.
Range(s) == {s[i] : i \in 1..Len(s)}

RECURSIVE SortedSeq(_)
\* list.sort() on a list of distinct integers, given as their set.
SortedSeq(S) ==
    IF S = {} THEN <<>>
    ELSE LET m == CHOOSE x \in S : \A y \in S : x <= y
         IN <<m>> \o SortedSeq(S \ {m})

RECURSIVE DictOf(_)
\* d after d[e[1]] = e[2] for every pair e of kvs, in order: a later pair
\* with the same key overwrites an earlier one.
DictOf(kvs) ==
    IF kvs = <<>> THEN <<>>
    ELSE LET d == DictOf(SubSeq(kvs, 1, Len(kvs) - 1))
             e == kvs[Len(kvs)]
         IN [k \in (DOMAIN d) \cup {e[1]} |-> IF k = e[1] THEN e[2] ELSE d[k]]

\* What a call returns or raises.
NoneRes == [kind |-> "None"]
Raise(exc, where) == [kind |-> "error", exc |-> exc, where |-> where]
\* An exception out of a decoder, with the read that fed it.
RaiseIn(exc, codec, file, at, nbytes) ==
    [kind |-> "error", exc |-> exc, where |-> "decode", codec |-> codec,
     file |-> file, at |-> at, nbytes |-> nbytes]

-----------------------------------------------------------------------------
(* __init__ : the three dictionaries, the image list, the category names. *)

\* Lines 126-128: one dictionary entry per record, keyed by its data offset,
\* holding the least significant four bits of its attribute byte.
RecDataOffsetDict(recs) ==
    DictOf([i \in 1..Len(recs) |-> <<recs[i].off, BitAnd(recs[i].attr, 15)>>])

\* The image list without the sort and without the dictionary: the record
\* list's offsets as the file gives them.
ImageListFileOrder(recs, d) == [i \in 1..Len(recs) |-> recs[i].off]

\* Lines 131-132: the dictionary's keys, sorted.
ImageList(recs, d) == SortedSeq(DOMAIN d)

RECURSIVE ReadCategoryNames(_, _, _, _, _)
\* Lines 135-141.  Slot k has just been read and the file position is tell;
\* a name is represented by the number of its slot.  The loop's test reads
\* images[0] only when slot k is not empty.
ReadCategoryNames(k, tell, names, imgs, slots) ==
    IF k >= slots THEN [ok |-> TRUE, names |-> names]
    ELSE IF imgs = <<>> THEN [ok |-> FALSE, names |-> names]
    ELSE IF tell < imgs[1]
         THEN ReadCategoryNames(k + 1, tell + NAME_SLOT, Append(names, k),
                                imgs, slots)
         ELSE [ok |-> TRUE, names |-> names]

RECURSIVE ReadVgaDict(_, _, _, _, _)
\* Lines 154-159: for i in range(0, cnt, 24), read the 8-byte record at the
\* file position, enter uid -> offset, and seek 184 bytes on.
ReadVgaDict(i, pos, d, cnt, recs) ==
    IF i >= cnt THEN d
    ELSE LET idx == (pos - RECORD_LIST_START) \div RECORD_SIZE
             rec == recs[(idx \div VGA_STRIDE) + 1]
             d2  == [k \in (DOMAIN d) \cup {rec.uid} |->
                        IF k = rec.uid THEN rec.off ELSE d[k]]
         IN ReadVgaDict(i + VGA_STRIDE, pos + RECORD_SIZE + VGA_SKIP, d2,
                        cnt, recs)

\* Lines 171-173.
NoteDict(recs) == DictOf([i \in 1..Len(recs) |-> <<recs[i].uid, recs[i].off>>])

\* Lines 371-375.
max_image_nr == record_cnt

\* Lines 378-382.
get_cur_image_nr == cur_image

\* Lines 106-108: the handles after the three opens, when the one the fault
\* names raises IOError.  The opens are made in this order and nothing is
\* read before the third.
OpenFaults == {"open_main", "open_vga", "open_note"}
Opened(f) ==
    [main |-> IF f = "open_main" THEN "None" ELSE "open",
     vga  |-> IF f \in {"open_main", "open_vga"} THEN "None" ELSE "open",
     note |-> IF f \in OpenFaults THEN "None" ELSE "open"]

\* Lines 78-173, __init__ from the point where the three files were found
\* to exist.  The u16 at byte 76 of the main container is the length of its
\* record list.  An open raises IOError; the unpack of a preamble read that
\* came back short raises struct.error (lines 113, 118, 148, 165); the
\* category loop raises IndexError at images[0] when the record list is
\* empty and a name slot is not.  No statement of __init__ closes a file.
Construct ==
    /\ phase = "new"
    /\ cur_image' = 0
    /\ emDB_fd' = Opened(fault).main
    /\ emVGADB_fd' = Opened(fault).vga
    /\ emNoteDB_fd' = Opened(fault).note
    /\ IF fault \in OpenFaults \cup {"short_main"}
       THEN /\ phase' = "failed"
            /\ err' = IF fault \in OpenFaults THEN "IOError" ELSE "struct.error"
            /\ UNCHANGED <<record_cnt, rec_data_offset_dict, images,
                           category_names, rec_data_offset_vga_dict,
                           rec_data_offset_note_dict>>
       ELSE LET d     == RecDataOffsetDict(mainRecs)
                imgs  == ImageList(mainRecs, d)
                names == ReadCategoryNames(0, appinfo_start + 2 + NAME_SLOT,
                                           <<>>, imgs, nameSlots)
                vgaOK  == names.ok /\ fault # "short_vga"
                noteOK == vgaOK /\ fault # "short_note"
            IN /\ record_cnt' = Len(mainRecs)
               /\ rec_data_offset_dict' = d
               /\ images' = imgs
               /\ category_names' = names.names
               /\ rec_data_offset_vga_dict' =
                     IF vgaOK
                     THEN ReadVgaDict(0, RECORD_LIST_START, <<>>, vgaCnt, vgaRecs)
                     ELSE <<>>
               /\ rec_data_offset_note_dict' =
                     IF noteOK THEN NoteDict(noteRecs) ELSE <<>>
               /\ phase' = IF noteOK THEN "ready" ELSE "failed"
               /\ err' = IF noteOK THEN ""
                         ELSE IF names.ok THEN "struct.error" ELSE "IndexError"
    /\ op' = "__init__"
    /\ UNCHANGED <<fileVars, arg, old_cur, res, dec, note>>

\* file.close(): closing a closed file is allowed and changes nothing.
Close(fd) == IF fd = "None" THEN "None" ELSE "closed"

\* Lines 181-190: each handle that is not None is closed.
cleanup ==
    /\ emDB_fd' = Close(emDB_fd)
    /\ emVGADB_fd' = Close(emVGADB_fd)
    /\ emNoteDB_fd' = Close(emNoteDB_fd)

\* The caller tears a constructed object down.
Cleanup ==
    /\ phase = "ready"
    /\ cleanup
    /\ op' = "cleanup"
    /\ UNCHANGED <<fileVars, phase, err, record_cnt, rec_data_offset_dict,
                   images, category_names, rec_data_offset_vga_dict,
                   rec_data_offset_note_dict, cur_image, arg, old_cur, res,
                   dec, note>>

\* Lines 176-178, __del__: the interpreter reclaims the object, a
\* constructed one its caller dropped or one whose __init__ raised, at a time
\* of its own choosing: after the last reference to it is gone, which for a
\* failed __init__ is not before the exception's traceback is.
Del ==
    /\ phase \in {"ready", "failed"}
    /\ cleanup
    /\ phase' = "deleted"
    /\ op' = "__del__"
    /\ UNCHANGED <<fileVars, err, record_cnt, rec_data_offset_dict,
                   images, category_names, rec_data_offset_vga_dict,
                   rec_data_offset_note_dict, cur_image, arg, old_cur, res,
                   dec, note>>

-----------------------------------------------------------------------------
(* The pixel decoders, by the lengths they consume and produce. *)

\* Line 251 with every quad decoded: no pdb list info is skipped.
ColorSkipNever(pos) == FALSE

\* Line 251: "if not pos % 6404: continue".
ColorSkip(pos) == pos % PDB_LIST_INFO = 0

\* Line 249: xrange(4, len(img_data), 4).
ColorQuads(len) == {pos \in 4..(len - 1) : pos % 4 = 0}

\* The quads lines 255-258 read.
ColorRead(len) == {pos \in ColorQuads(len) : ~ColorSkip(pos)}

\* Lines 249-258 on img_data of len bytes: img_data[pos + 3] past the end
\* raises IndexError; otherwise every quad read appends Y1,U,V,Y2,U,V, which
\* is two YCbCr samples.
ColorDecode(len) ==
    [ok      |-> \A pos \in ColorRead(len) : pos + 3 < len,
     samples |-> 2 * Cardinality(ColorRead(len))]

\* The decode of a full read(153696).
ColorDecodeFull == ColorDecode(COLOR_PAYLOAD)

\* Lines 229-233 on img_data of len bytes: two samples per byte.
GrayDecode(len) == [ok |-> TRUE, samples |-> 2 * len]

\* PIL.Image.frombytes (lines 235, 260): it raises ValueError ("not enough
\* image data") when the buffer holds fewer than width * height samples.
FromBytesOK(samples, w, h) == samples >= w * h

-----------------------------------------------------------------------------
(* The methods.  Each is an operator from the cursor and the argument to   *)
(* the cursor afterwards and the result.                                   *)

\* Lines 271-276, and the same lines 334-339 of get_image: the image number
\* a call is about and the cursor after it.
Resolve(cur, n) ==
    IF n = -1 THEN [ok |-> TRUE, nr |-> cur, cur |-> cur]
    ELSE IF n < record_cnt THEN [ok |-> TRUE, nr |-> n, cur |-> n]
    ELSE [ok |-> FALSE, nr |-> n, cur |-> cur]

\* Lines 279-325: seek to images[image_nr], read and unpack 58 bytes.
ReadHeader(nr) ==
    IF ~PyIndexOK(images, nr) THEN Raise("IndexError", "images")
    ELSE LET off == PyIndex(images, nr)
             h   == hdrAt[off]
         IN IF h.parse = "short" THEN Raise("struct.error", "header")
            ELSE IF h.parse = "noNUL" THEN Raise("ValueError", "Name")
            ELSE [kind |-> "header", off |-> off,
                  firstVGARecUID |-> h.uid, noteUID |-> h.note,
                  Width |-> h.w, Height |-> h.h]

\* get_header without line 274: an explicit in-range number is looked up
\* but does not become the current image.
get_header_keeps_cursor(cur, n) ==
    LET r == Resolve(cur, n)
    IN IF r.ok THEN [cur |-> cur, res |-> ReadHeader(r.nr)]
       ELSE [cur |-> cur, res |-> NoneRes]

\* Lines 265-325.
get_header(cur, n) ==
    LET r == Resolve(cur, n)
    IN IF r.ok THEN [cur |-> r.cur, res |-> ReadHeader(r.nr)]
       ELSE [cur |-> r.cur, res |-> NoneRes]

\* The dispatch with the test of line 353 inverted.
UsesColorInverted(header) == header.firstVGARecUID = 0

\* Line 353: "if header["firstVGARecUID"]".
UsesColor(header) == header.firstVGARecUID # 0

\* Lines 344-368: the category name for the progress line, then the payload
\* read and its decode.
DecodeImage(nr, header) ==
    LET off == PyIndex(images, nr)
        img_length == header.Width * header.Height
    IN IF ~PyIndexOK(category_names, rec_data_offset_dict[off])
       THEN Raise("IndexError", "category_names")
       ELSE IF UsesColor(header)
       THEN IF header.firstVGARecUID \notin DOMAIN rec_data_offset_vga_dict
            THEN Raise("KeyError", "rec_data_offset_vga_dict")
            ELSE LET at  == rec_data_offset_vga_dict[header.firstVGARecUID]
                     got == Min(COLOR_PAYLOAD, vgaAvail[at])
                     d   == IF got = COLOR_PAYLOAD THEN ColorDecodeFull
                            ELSE ColorDecode(got)
                 IN IF ~d.ok
                    THEN RaiseIn("IndexError", "Color", "eyemoduleVGADB.pdb",
                                 at, COLOR_PAYLOAD)
                    ELSE IF ~FromBytesOK(d.samples, header.Width, header.Height)
                    THEN RaiseIn("ValueError", "Color", "eyemoduleVGADB.pdb",
                                 at, COLOR_PAYLOAD)
                    ELSE [kind |-> "image", codec |-> "Color",
                          file |-> "eyemoduleVGADB.pdb", at |-> at,
                          nbytes |-> COLOR_PAYLOAD, samples |-> d.samples,
                          Width |-> header.Width, Height |-> header.Height]
       ELSE LET at  == off + HEADER_LENGTH
                got == Min(img_length \div 2, hdrAt[off].avail)
                d   == GrayDecode(got)
            IN IF ~FromBytesOK(d.samples, header.Width, header.Height)
               THEN RaiseIn("ValueError", "Grayscale", "eyemoduleDB.pdb",
                            at, img_length \div 2)
               ELSE [kind |-> "image", codec |-> "Grayscale",
                     file |-> "eyemoduleDB.pdb", at |-> at,
                     nbytes |-> img_length \div 2, samples |-> d.samples,
                     Width |-> header.Width, Height |-> header.Height]

\* Lines 328-368.  Line 341 asks get_header for the image at the cursor the
\* resolution has just set; a None from it fails at header["Width"].
get_image(cur, n) ==
    LET r == Resolve(cur, n)
    IN IF ~r.ok THEN [cur |-> r.cur, res |-> NoneRes]
       ELSE LET hc == get_header(r.cur, r.cur)
            IN IF hc.res.kind = "None"
               THEN [cur |-> hc.cur, res |-> Raise("TypeError", "header")]
               ELSE IF hc.res.kind = "error"
               THEN [cur |-> hc.cur, res |-> hc.res]
               ELSE [cur |-> hc.cur, res |-> DecodeImage(r.nr, hc.res)]

\* Lines 385-395.
get_next_image(cur) ==
    IF cur + 1 < record_cnt THEN get_image(cur + 1, cur + 1)
    ELSE [cur |-> cur, res |-> NoneRes]

\* Lines 398-408.
get_previous_image(cur) ==
    IF cur - 1 > 0 THEN get_image(cur - 1, cur - 1)
    ELSE [cur |-> cur, res |-> NoneRes]

-----------------------------------------------------------------------------
(* The calls, as actions on a constructed object. *)

indexVars == <<phase, err, record_cnt, rec_data_offset_dict, images,
               category_names, rec_data_offset_vga_dict,
               rec_data_offset_note_dict, fdVars>>

\* The explicit image numbers a caller passes; -1 is the default.
Args == (0 - NegArgs)..(MaxRecs + 1)

Call(name, n, r) ==
    /\ op' = name
    /\ arg' = n
    /\ old_cur' = cur_image
    /\ cur_image' = r.cur
    /\ res' = r.res
    /\ UNCHANGED <<fileVars, indexVars, dec, note>>

GetHeader == phase = "ready" /\ \E n \in Args : Call("get_header", n, get_header(cur_image, n))

GetImage == phase = "ready" /\ \E n \in Args : Call("get_image", n, get_image(cur_image, n))

GetNextImage == phase = "ready" /\ Call("get_next_image", -1, get_next_image(cur_image))

GetPreviousImage == phase = "ready" /\ Call("get_previous_image", -1, get_previous_image(cur_image))

-----------------------------------------------------------------------------
(* extract_image.  The call runs up to its note loop in one step, the loop *)
(* one iteration per step, and the rest of the call in a last step; no     *)
(* other call starts while the loop runs.  note holds the call's locals:   *)
(* nr the image number, category the name found, at the note's offset,     *)
(* pos the bytes read from there, c the byte read(1) returned last and     *)
(* text what note_fd.write has written.                                    *)

\* The note loop is not running.
NoteIdle == [pc |-> "idle"]

\* What read(1) returns at the end of the file: the empty string.
EOF == -1

\* An exception caught by line 495 and raised again as Exception(str(error)).
Wrapped(r) ==
    IF r.kind = "error"
    THEN [kind |-> "error", exc |-> "Exception", where |-> r.where,
          inner |-> r.exc]
    ELSE r

\* Line 461 with the index taken modulo the length of the table.
category_of_wrapping(nr) ==
    IF ~PyIndexOK(images, nr) THEN Raise("IndexError", "images")
    ELSE IF category_names = <<>> THEN Raise("IndexError", "category_names")
    ELSE [kind |-> "name",
          name |-> PyIndex(category_names,
                           rec_data_offset_dict[PyIndex(images, nr)]
                               % Len(category_names))]

\* Line 461: category_names[rec_data_offset_dict[images[image_nr]]].  A name
\* is the number of its slot.
category_of(nr) ==
    IF ~PyIndexOK(images, nr) THEN Raise("IndexError", "images")
    ELSE LET id == rec_data_offset_dict[PyIndex(images, nr)]
         IN IF ~PyIndexOK(category_names, id)
            THEN Raise("IndexError", "category_names")
            ELSE [kind |-> "name", name |-> PyIndex(category_names, id)]

\* read(1) with the file position pos bytes after offset at, and the
\* position after it.
NoteRead(at, pos) ==
    IF pos < Len(noteTail[at]) THEN noteTail[at][pos + 1] ELSE EOF
NoteTell(at, pos) == Min(pos + 1, Len(noteTail[at]))

\* Line 494 and what follows: get_image(image_nr).save, a None from
\* get_image failing at .save; text is the note written, <<>> if none was.
ExtractSave(cur, nr, category, text) ==
    LET g == get_image(cur, nr)
    IN [cur |-> g.cur,
        res |-> IF g.res.kind = "None"
                THEN Wrapped(Raise("AttributeError", "save"))
                ELSE IF g.res.kind = "error" THEN Wrapped(g.res)
                ELSE [kind |-> "saved", category |-> category,
                      text |-> text, codec |-> g.res.codec]]

\* Lines 451-486: the resolution, the header, the category name, and, for a
\* header with a noteUID, the seek to the note and the first read(1).  The
\* result says where the call is: returned (or raised), or in the loop.
ExtractStart(cur, n) ==
    LET r == Resolve(cur, n)
    IN IF ~r.ok THEN [cur |-> r.cur, stage |-> "return", res |-> NoneRes]
       ELSE LET hc  == get_header(r.cur, r.nr)
                cat == category_of(r.nr)
            IN IF hc.res.kind = "error"
               THEN [cur |-> hc.cur, stage |-> "return", res |-> hc.res]
               ELSE IF cat.kind = "error"
               THEN [cur |-> hc.cur, stage |-> "return", res |-> cat]
               ELSE IF hc.res.kind = "None"
               THEN [cur |-> hc.cur, stage |-> "return",
                     res |-> Raise("TypeError", "header")]
               ELSE IF hc.res.noteUID = 0
               THEN LET e == ExtractSave(hc.cur, r.nr, cat.name, <<>>)
                    IN [cur |-> e.cur, stage |-> "return", res |-> e.res]
               ELSE IF hc.res.noteUID \notin DOMAIN rec_data_offset_note_dict
               THEN [cur |-> hc.cur, stage |-> "return",
                     res |-> Wrapped(Raise("KeyError",
                                           "rec_data_offset_note_dict"))]
               ELSE [cur |-> hc.cur, stage |-> "loop",
                     res |-> [kind |-> "running"],
                     note |-> [pc |-> "loop", nr |-> r.nr,
                               category |-> cat.name,
                               at |-> rec_data_offset_note_dict[hc.res.noteUID],
                               pos |-> NoteTell(
                                         rec_data_offset_note_dict[hc.res.noteUID],
                                         0),
                               text |-> <<>>,
                               c |-> NoteRead(
                                       rec_data_offset_note_dict[hc.res.noteUID],
                                       0)]]

\* Lines 444-486.
ExtractImage ==
    /\ phase = "ready" /\ note.pc # "loop"
    /\ \E n \in Args :
          LET e == ExtractStart(cur_image, n)
          IN /\ op' = "extract_image"
             /\ arg' = n
             /\ old_cur' = cur_image
             /\ cur_image' = e.cur
             /\ res' = e.res
             /\ note' = IF e.stage = "loop" THEN e.note ELSE NoteIdle
    /\ UNCHANGED <<fileVars, indexVars, dec>>

\* Lines 487-489, one iteration of "while c != "\0"": write c, read the
\* next byte.  At the end of the file c is the empty string: the write adds
\* nothing, the read returns the empty string again and the file position
\* stays, so the iteration leaves every variable as it was.
NoteStep ==
    /\ note.pc = "loop" /\ note.c # 0
    /\ note' = [note EXCEPT
                  !.text = IF note.c = EOF THEN @ ELSE Append(@, note.c),
                  !.pos  = NoteTell(note.at, @),
                  !.c    = NoteRead(note.at, note.pos)]
    /\ UNCHANGED <<fileVars, catalogVars, callVars, dec>>

\* Lines 491-498: c is the NUL; the note file is closed and the image saved.
NoteFinish ==
    /\ note.pc = "loop" /\ note.c = 0
    /\ LET e == ExtractSave(cur_image, note.nr, note.category, note.text)
       IN /\ cur_image' = e.cur
          /\ res' = e.res
    /\ note' = NoteIdle
    /\ UNCHANGED <<fileVars, indexVars, op, arg, old_cur, dec>>

-----------------------------------------------------------------------------
(* The pixel decoders, one loop iteration per step.  dec holds the loop's  *)
(* variables: pos is the next index into img_data, n the number of samples *)
(* in img_array, at the index the last iteration was at, emitted what it   *)
(* appended.  The payload's bytes are a function of a seed and the index.  *)

ImgData(seed, p) == (p * seed + (p \div 256)) % 256

Idle == [pc |-> "idle"]

\* Lines 249-258, one iteration.
ColorStep ==
    /\ dec.pc = "scan" /\ dec.codec = "Color"
    /\ dec.pos < dec.len
    /\ IF ColorSkip(dec.pos)
       THEN dec' = [dec EXCEPT !.pos = @ + 4, !.at = dec.pos, !.emitted = <<>>]
       ELSE IF dec.pos + 3 >= dec.len
       THEN dec' = [dec EXCEPT !.pc = "IndexError", !.at = dec.pos,
                               !.emitted = <<>>]
       ELSE LET U  == ImgData(dec.seed, dec.pos)
                Y1 == ImgData(dec.seed, dec.pos + 1)
                V  == ImgData(dec.seed, dec.pos + 2)
                Y2 == ImgData(dec.seed, dec.pos + 3)
            IN dec' = [dec EXCEPT !.pos = @ + 4, !.at = dec.pos,
                                  !.n = @ + 2,
                                  !.emitted = << <<Y1, U, V>>, <<Y2, U, V>> >>]
    /\ UNCHANGED <<fileVars, catalogVars, callVars, note>>

\* Line 260: the loop is over and frombytes takes the buffer.
ColorFinish ==
    /\ dec.pc = "scan" /\ dec.codec = "Color"
    /\ dec.pos >= dec.len
    /\ dec' = [dec EXCEPT !.pc = IF FromBytesOK(dec.n, dec.w, dec.h)
                                 THEN "done" ELSE "ValueError"]
    /\ UNCHANGED <<fileVars, catalogVars, callVars, note>>

\* Line 230 with the mask of line 231.
Pixel1LowNibble(b) == 255 - BitAnd(b, 15)

\* Line 230.
Pixel1(b) == 255 - BitAnd(b, 240)

\* Line 231.
Pixel2(b) == 255 - (BitAnd(b, 15) * 16)

\* Lines 229-233, one iteration: the next byte of img_data is b.
GrayStep ==
    /\ dec.pc = "scan" /\ dec.codec = "Grayscale"
    /\ dec.pos < dec.len
    /\ \E b \in 0..255 :
          dec' = [dec EXCEPT !.pos = @ + 1, !.at = dec.pos, !.byte = b,
                             !.n = @ + 2,
                             !.emitted = <<Pixel1(b), Pixel2(b)>>]
    /\ UNCHANGED <<fileVars, catalogVars, callVars, note>>

\* Line 235.
GrayFinish ==
    /\ dec.pc = "scan" /\ dec.codec = "Grayscale"
    /\ dec.pos >= dec.len
    /\ dec' = [dec EXCEPT !.pc = IF FromBytesOK(dec.n, dec.w, dec.h)
                                 THEN "done" ELSE "ValueError"]
    /\ UNCHANGED <<fileVars, catalogVars, callVars, note>>

-----------------------------------------------------------------------------
(* The containers the specifications draw from. *)

Offsets == {160, 320, 480}

\* The data offsets the main container's record list names.
RecordOffsets == {mainRecs[i].off : i \in 1..Len(mainRecs)}

SeqsUpTo(S, n) == UNION {[1..k -> S] : k \in 0..n}

HGray    == [parse |-> "ok", uid |-> 0, note |-> 0, w |-> 4, h |-> 2, avail |-> 4]
HGrayOdd == [parse |-> "ok", uid |-> 0, note |-> 0, w |-> 3, h |-> 1, avail |-> 4]
HGrayCut == [parse |-> "ok", uid |-> 0, note |-> 0, w |-> 4, h |-> 2, avail |-> 3]
HColor   == [parse |-> "ok", uid |-> 7, note |-> 0, w |-> 320, h |-> 240, avail |-> 0]
HColor9  == [parse |-> "ok", uid |-> 9, note |-> 5, w |-> 320, h |-> 240, avail |-> 0]
HNoNul   == [parse |-> "noNUL", uid |-> 0, note |-> 0, w |-> 4, h |-> 2, avail |-> 4]
HShort   == [parse |-> "short", uid |-> 0, note |-> 0, w |-> 4, h |-> 2, avail |-> 0]

\* The colour container's indexed records: physical records 0, 24, 48.
VgaHeaders == <<[off |-> 654, uid |-> 7], [off |-> 154350, uid |-> 9],
                [off |-> 308046, uid |-> 7]>>
VgaOffsets == {VgaHeaders[i].off : i \in 1..Len(VgaHeaders)}

\* The physical records at multiples of 24 below cnt.
VgaRecsFor(cnt) == SubSeq(VgaHeaders, 1, (cnt + VGA_STRIDE - 1) \div VGA_STRIDE)

NoteRecsSet == {<<>>, <<[off |-> 86, uid |-> 5]>>}
NoteOffsets == {86}

Faults == OpenFaults \cup {"short_main", "short_vga", "short_note"}

InitCatalog ==
    /\ phase = "new" /\ err = ""
    /\ record_cnt = 0 /\ rec_data_offset_dict = <<>> /\ images = <<>>
    /\ category_names = <<>> /\ rec_data_offset_vga_dict = <<>>
    /\ rec_data_offset_note_dict = <<>> /\ cur_image = 0
    /\ emDB_fd = "None" /\ emVGADB_fd = "None" /\ emNoteDB_fd = "None"
    /\ op = "" /\ arg = -1 /\ old_cur = 0 /\ res = NoneRes
    /\ note = NoteIdle

InitFiles(recLists, files, slots, appinfos, vgaCnts, avails, notes, tails, faults) ==
    /\ mainRecs \in recLists
    /\ hdrAt \in files
    /\ nameSlots \in slots
    /\ appinfo_start \in appinfos
    /\ vgaCnt \in vgaCnts
    /\ vgaRecs = VgaRecsFor(vgaCnt)
    /\ vgaAvail \in avails
    /\ noteRecs \in notes
    /\ noteTail \in tails
    /\ fault \in faults

FullAvail == [o \in VgaOffsets |-> COLOR_PAYLOAD]

\* A note container whose one note is "h" and a NUL.
OneNote == [o \in NoteOffsets |-> <<104, 0>>]

\* Navigation: every record list up to MaxRecs, duplicates included, over
\* two main containers.
NavFiles ==
    { (160 :> HGray @@ 320 :> HColor @@ 480 :> HGrayOdd),
      (160 :> HColor9 @@ 320 :> HNoNul @@ 480 :> HGray) }

Init ==
    /\ InitFiles(SeqsUpTo([off : Offsets, attr : {241}], MaxRecs), NavFiles,
                 {0, 2}, {102}, {0, 24, 25}, {FullAvail}, {<<>>}, {OneNote},
                 {"none"})
    /\ InitCatalog
    /\ dec = Idle

Next == Construct \/ GetHeader \/ GetImage \/ GetNextImage \/ GetPreviousImage

Spec == Init /\ [][Next]_vars

\* Images: two records, listed in descending order of offset, over every
\* pair of headers, with and without a name for their categories, an entry
\* in the colour dictionary and a full colour payload.  The bytes at the
\* offset no record names are never read; they are fixed.
HeaderKinds == {HGray, HGrayOdd, HGrayCut, HColor, HColor9, HShort}

ImgRecLists ==
    {<<[off |-> 320, attr |-> a], [off |-> 160, attr |-> b]>> :
        a \in {16, 241}, b \in {16, 241}}

CutAvail == [o \in VgaOffsets |-> IF o = 654 THEN 10 ELSE COLOR_PAYLOAD]

InitImg ==
    /\ InitFiles(ImgRecLists, [Offsets -> HeaderKinds], {1, 2}, {102},
                 {0, 24, 48}, {FullAvail, CutAvail}, {<<>>}, {OneNote},
                 {"none"})
    /\ \A o \in Offsets \ RecordOffsets : hdrAt[o] = HGray
    /\ InitCatalog
    /\ dec = Idle

SpecImg == InitImg /\ [][Next]_vars

\* No object: the decoders run on their own.
InitNoCatalog ==
    /\ mainRecs = <<>> /\ hdrAt = [o \in Offsets |-> HGray]
    /\ nameSlots = 0 /\ appinfo_start = 102
    /\ vgaCnt = 0 /\ vgaRecs = <<>> /\ vgaAvail = FullAvail
    /\ noteRecs = <<>> /\ noteTail = OneNote /\ fault = "none"
    /\ InitCatalog

\* The colour decoder on the 153696 bytes get_image reads for a 320 x 240
\* image, and on a payload cut inside a quad.
ColorSeeds == {3, 5}

InitColor ==
    /\ InitNoCatalog
    /\ \E seed \in ColorSeeds, len \in {COLOR_PAYLOAD, 6410} :
          dec = [pc |-> "scan", codec |-> "Color", len |-> len,
                 w |-> 320, h |-> 240, seed |-> seed,
                 pos |-> 4, at |-> 0, n |-> 0, emitted |-> <<>>]

NextColor == ColorStep \/ ColorFinish

SpecColor == InitColor /\ [][NextColor]_vars

\* The grayscale decoder on the width * height / 2 bytes get_image reads
\* (line 365), for every width and height that need at most MaxGrayBytes.
GrayDims ==
    {d \in (1..(2 * MaxGrayBytes + 1)) \X (1..2) :
        (d[1] * d[2]) \div 2 <= MaxGrayBytes}

InitGray ==
    /\ InitNoCatalog
    /\ \E d \in GrayDims :
          dec = [pc |-> "scan", codec |-> "Grayscale",
                 len |-> (d[1] * d[2]) \div 2, w |-> d[1], h |-> d[2],
                 pos |-> 0, at |-> -1, byte |-> 0, n |-> 0, emitted |-> <<>>]

NextGray == GrayStep \/ GrayFinish

SpecGray == InitGray /\ [][NextGray]_vars

-----------------------------------------------------------------------------
(* What the claims speak of. *)

\* The number of images: the size of the image list.
count == Len(images)

\* The n-th smallest of a set of integers, n counted from 0.
NthSmallest(S, n) == CHOOSE o \in S : Cardinality({x \in S : x < o}) = n

\* C1: get_next_image called with the cursor at the last valid image number
\* count - 1 returns None and leaves the cursor where it was; called at a
\* cursor c with c + 1 <= count - 1 it leaves the cursor at c + 1.
C1_AdvanceClamped ==
    op = "get_next_image" =>
        /\ old_cur = count - 1 => (res = NoneRes /\ cur_image = old_cur)
        /\ old_cur + 1 <= count - 1 => cur_image = old_cur + 1

\* C2: get_previous_image moves the cursor from c to c - 1 for every c with
\* 1 <= c <= count - 1, and returns None with the cursor unchanged at c = 0.
C2_RetreatReachesZero ==
    op = "get_previous_image" =>
        /\ old_cur \in 1..(count - 1) =>
              (cur_image = old_cur - 1 /\ res.kind # "None")
        /\ old_cur = 0 => (res = NoneRes /\ cur_image = old_cur)

\* C3: get_header and get_image called with an explicit image number >= count
\* end in an error, not in a returned value, and leave the cursor unchanged.
C3_OutOfRangeIsError ==
    (op \in {"get_header", "get_image"} /\ arg >= count) =>
        (res.kind = "error" /\ cur_image = old_cur)

\* C4: get_header without an image number leaves the cursor unchanged and
\* reads the header of the image at the cursor; with an explicit n,
\* 0 <= n < count, it reads the header at the n-th smallest data offset of
\* the record list and the cursor is n afterwards.
C4_HeaderResolution ==
    op = "get_header" =>
        /\ arg = -1 =>
              /\ cur_image = old_cur
              /\ old_cur \in 0..(count - 1) =>
                    LET o == NthSmallest(RecordOffsets, old_cur)
                    IN IF hdrAt[o].parse = "ok"
                       THEN res.kind = "header" /\ res.off = o
                       ELSE res.kind = "error"
        /\ arg \in 0..(count - 1) =>
              /\ cur_image = arg
              /\ LET o == NthSmallest(RecordOffsets, arg)
                 IN IF hdrAt[o].parse = "ok"
                    THEN /\ res.kind = "header" /\ res.off = o
                         /\ res.Width = hdrAt[o].w /\ res.Height = hdrAt[o].h
                         /\ res.firstVGARecUID = hdrAt[o].uid
                    ELSE res.kind = "error"

\* C4's case: an explicit in-range number other than the cursor, whose
\* header is returned.
C4_Witness ==
    /\ op = "get_header" /\ arg \in 1..(count - 1) /\ arg # old_cur
    /\ res.kind = "header" /\ res.off = images[arg + 1]

\* C5: after construction the image list is strictly ascending (so without
\* duplicates), its elements are exactly the record list's data offsets,
\* and max_image_nr() is the number N of record entries; N distinct offsets
\* give N images.
C5_ImageIndexSorted ==
    phase = "ready" =>
        /\ \A i \in 1..(Len(images) - 1) : images[i] < images[i + 1]
        /\ Range(images) = RecordOffsets
        /\ max_image_nr = Len(mainRecs)
        /\ Cardinality(RecordOffsets) = Len(mainRecs) =>
              Len(images) = Len(mainRecs)

\* C5's case: three records with distinct offsets that the file does not
\* list in ascending order.
C5_Witness ==
    /\ phase = "ready" /\ Len(mainRecs) = 3 /\ Len(images) = 3
    /\ mainRecs[1].off > mainRecs[2].off

\* C6: when the colour container's record count is not a multiple of 24,
\* construction fails and yields no object.
C6_ColorCountChecked ==
    (phase # "new" /\ vgaCnt % VGA_STRIDE # 0) => phase = "failed"

\* C10: when get_image, get_next_image or get_previous_image raises, the
\* three dictionaries and the image list are what construction made them,
\* the cursor is a valid image number, and get_header(m) and get_image(m)
\* give for every explicit m what they gave before the failed call.
C10_FailuresAreLocal ==
    (/\ op \in {"get_image", "get_next_image", "get_previous_image"}
     /\ res.kind = "error" /\ count >= 1) =>
        /\ rec_data_offset_dict = RecDataOffsetDict(mainRecs)
        /\ images = ImageList(mainRecs, rec_data_offset_dict)
        /\ rec_data_offset_vga_dict =
              ReadVgaDict(0, RECORD_LIST_START, <<>>, vgaCnt, vgaRecs)
        /\ rec_data_offset_note_dict = NoteDict(noteRecs)
        /\ cur_image \in 0..(count - 1)
        /\ \A m \in Args \ {-1} :
              /\ get_header(cur_image, m).res = get_header(old_cur, m).res
              /\ get_image(cur_image, m).res = get_image(old_cur, m).res

\* A call that got as far as a decoder.
Decoded(r) == r.kind = "image" \/ (r.kind = "error" /\ r.where = "decode")

\* The image a get_image call is about: the explicit number, or the cursor.
ImageNrOfCall == IF arg = -1 THEN old_cur ELSE arg

\* What C9 says of a get_image call for the image at data offset o.
DispatchAt(o) ==
    LET h == hdrAt[o]
    IN IF h.uid # 0
       THEN IF h.uid \in DOMAIN rec_data_offset_vga_dict
            THEN /\ Decoded(res) /\ res.codec = "Color"
                 /\ res.file = "eyemoduleVGADB.pdb"
                 /\ res.at = rec_data_offset_vga_dict[h.uid]
                 /\ res.nbytes = 153696
            ELSE res.kind = "error" /\ ~Decoded(res)
       ELSE /\ Decoded(res) /\ res.codec = "Grayscale"
            /\ res.file = "eyemoduleDB.pdb"
            /\ res.at = o + 58
            /\ res.nbytes = (h.w * h.h) \div 2

\* C9 as stated: get_image decodes with the colour codec exactly when the
\* header's firstVGARecUID is not 0, from 153696 bytes at the colour
\* dictionary's offset for it, and fails when the dictionary has no entry;
\* with firstVGARecUID 0 it decodes with the grayscale codec from
\* width * height / 2 bytes at the data offset + 58 of the main container.
C9_DispatchByColorId ==
    (/\ op = "get_image" /\ ImageNrOfCall \in 0..(count - 1)
     /\ hdrAt[images[ImageNrOfCall + 1]].parse = "ok") =>
        DispatchAt(images[ImageNrOfCall + 1])

\* C9 as amended: the same, for an image whose category has a name; for an
\* image whose category id is not below the number of category names,
\* get_image raises IndexError and decodes nothing.
C9_DispatchAfterCategory ==
    (/\ op = "get_image" /\ ImageNrOfCall \in 0..(count - 1)
     /\ hdrAt[images[ImageNrOfCall + 1]].parse = "ok") =>
        LET o == images[ImageNrOfCall + 1]
        IN IF rec_data_offset_dict[o] < Len(category_names)
           THEN DispatchAt(o)
           ELSE res = Raise("IndexError", "category_names")

\* C9's case: a colour image, found in the colour dictionary and decoded.
C9_Witness ==
    /\ op = "get_image" /\ res.kind = "image" /\ res.codec = "Color"
    /\ res.at \in VgaOffsets

\* C7: the colour decode scans p = 4, 8, ... over the payload; an iteration
\* at p with p mod 6404 = 0 appends nothing, any other appends the two
\* samples (Y1, U, V) and (Y2, U, V) of the quad U, Y1, V, Y2 at p; after
\* the scan of a 153696-byte payload the buffer holds 76800 = 320 * 240
\* samples, which is what get_image counts on for it.
C7_ColorSampleCount ==
    (dec.pc # "idle" /\ dec.codec = "Color") =>
        /\ dec.pos % 4 = 0 /\ dec.pos >= 4
        /\ (dec.at >= 4 /\ dec.pc # "IndexError") =>
              /\ dec.pos = dec.at + 4
              /\ IF dec.at % 6404 = 0
                 THEN dec.emitted = <<>>
                 ELSE dec.emitted =
                        << <<ImgData(dec.seed, dec.at + 1),
                             ImgData(dec.seed, dec.at),
                             ImgData(dec.seed, dec.at + 2)>>,
                           <<ImgData(dec.seed, dec.at + 3),
                             ImgData(dec.seed, dec.at),
                             ImgData(dec.seed, dec.at + 2)>> >>
        /\ (dec.pc \in {"done", "ValueError"} /\ dec.len = 153696) =>
              /\ dec.n = 76800 /\ dec.n = 320 * 240 /\ dec.pc = "done"
              /\ ColorDecodeFull = [ok |-> TRUE, samples |-> dec.n]

\* C7's case: the scan of a 153696-byte payload has ended.
C7_Witness ==
    /\ dec.pc = "done" /\ dec.codec = "Color" /\ dec.len = 153696
    /\ dec.at = 153692 /\ dec.n = 76800

\* C8: the grayscale decode appends for every payload byte b, in order,
\* 255 - (b & 0xF0) and then 255 - ((b & 0x0F) << 4), both in 0..255, so
\* width * height / 2 bytes give width * height samples; 0xF0 gives
\* (15, 255) and 0x00 gives (255, 255).
C8_GrayNibbles ==
    (dec.pc # "idle" /\ dec.codec = "Grayscale") =>
        /\ dec.n = 2 * dec.pos
        /\ dec.at >= 0 =>
              /\ dec.pos = dec.at + 1
              /\ dec.emitted = <<255 - 16 * (dec.byte \div 16),
                                 255 - 16 * (dec.byte % 16)>>
              /\ dec.emitted[1] \in 0..255 /\ dec.emitted[2] \in 0..255
              /\ dec.byte = 240 => dec.emitted = <<15, 255>>
              /\ dec.byte = 0 => dec.emitted = <<255, 255>>
        /\ dec.pc \in {"done", "ValueError"} =>
              /\ dec.n = 2 * dec.len
              /\ 2 * dec.len = dec.w * dec.h =>
                    (dec.n = dec.w * dec.h /\ dec.pc = "done")

\* C8's case: a decode that ended on the byte 0xF0 with width * height
\* samples.
C8_Witness ==
    /\ dec.pc = "done" /\ dec.codec = "Grayscale" /\ dec.len >= 2
    /\ dec.byte = 240 /\ dec.emitted = <<15, 255>> /\ dec.n = dec.w * dec.h

-----------------------------------------------------------------------------
(* The life of an object: construction over every fault, then teardown.   *)

InitLife ==
    /\ InitFiles(SeqsUpTo([off : Offsets, attr : {241}], MaxRecs), NavFiles,
                 {0, 2}, {102}, {0, 24}, {FullAvail}, NoteRecsSet, {OneNote},
                 Faults \cup {"none"})
    /\ InitCatalog
    /\ dec = Idle

NextLife == Construct \/ Cleanup \/ Del

SpecLife == InitLife /\ [][NextLife]_vars

\* C11: when construction has failed after one or more of the three
\* containers was opened (a later open, a preamble read or an index build
\* failed), every container opened so far is closed and the caller has no
\* object; after cleanup on a constructed object all three are closed.
C11_FailureClosesContainers ==
    /\ phase = "failed" =>
          (emDB_fd # "open" /\ emVGADB_fd # "open" /\ emNoteDB_fd # "open")
    /\ op = "cleanup" =>
          (emDB_fd = "closed" /\ emVGADB_fd = "closed" /\ emNoteDB_fd = "closed")

-----------------------------------------------------------------------------
(* The cursor and the image count, under Spec. *)

\* C13: after any sequence of get_header, get_image, get_next_image and
\* get_previous_image calls with any integer arguments, negative ones other
\* than -1 included, the cursor of a catalog with count >= 1 satisfies
\* 0 <= cursor <= count - 1.
C13_CursorInRange ==
    (phase = "ready" /\ count >= 1) => cur_image \in 0..(count - 1)

\* C14: for every main container, one whose record list repeats a data
\* offset included, max_image_nr() is the length of the sorted image list,
\* and every image number n with 0 <= n < max_image_nr() that get_header's
\* range check accepts indexes an existing entry of that list.
C14_MaxImageNrIsImageCount ==
    phase = "ready" =>
        /\ max_image_nr = Len(images)
        /\ \A n \in 0..(max_image_nr - 1) :
              Resolve(cur_image, n).ok =>
                  /\ n + 1 \in DOMAIN images
                  /\ get_header(cur_image, n).res # Raise("IndexError", "images")

-----------------------------------------------------------------------------
(* Categories: one image, or one listed twice, whose attribute byte is any *)
(* byte, over name tables of 0, 3 and 16 names.                            *)

HGrayNote == [parse |-> "ok", uid |-> 0, note |-> 5, w |-> 4, h |-> 2, avail |-> 4]

Bytes == 0..255

CatRecLists ==
    {<<[off |-> 480, attr |-> a]>> : a \in Bytes}
        \cup {<<[off |-> 480, attr |-> a], [off |-> 480, attr |-> 255 - a]>> :
                 a \in Bytes}

CatFiles ==
    {(160 :> HGray @@ 320 :> HGray @@ 480 :> h) : h \in {HGray, HGrayNote, HColor}}

InitCat ==
    /\ InitFiles(CatRecLists, CatFiles, {0, 3, 16}, {102}, {24}, {FullAvail},
                 {<<[off |-> 86, uid |-> 5]>>}, {OneNote}, {"none"})
    /\ InitCatalog
    /\ dec = Idle

NextExtract == Construct \/ ExtractImage \/ NoteStep \/ NoteFinish

SpecCat == InitCat /\ [][NextExtract]_vars

\* The attribute byte of the record that gave the image at data offset o its
\* category: the last record of the list that names o.
AttrOf(o) ==
    LET i == CHOOSE j \in 1..Len(mainRecs) :
                 /\ mainRecs[j].off = o
                 /\ \A k \in (j + 1)..Len(mainRecs) : mainRecs[k].off # o
    IN mainRecs[i].attr

\* C12: the categoryId stored for every image is in 0..15 whatever the
\* record's attribute byte is (it is the byte's low four bits), and
\* extract_image of an image whose categoryId is not below the number of
\* names read raises IndexError at the name table and returns no name; of an
\* image whose categoryId is below it, the name it files the image under is
\* the one in the slot of that number.
C12_CategoryBounded ==
    /\ phase = "ready" =>
          \A o \in Range(images) :
              /\ rec_data_offset_dict[o] \in 0..15
              /\ rec_data_offset_dict[o] = AttrOf(o) % 16
    /\ (op = "extract_image" /\ ImageNrOfCall \in 0..(count - 1)) =>
          LET id == rec_data_offset_dict[images[ImageNrOfCall + 1]]
          IN IF id >= Len(category_names)
             THEN res = Raise("IndexError", "category_names") /\ note = NoteIdle
             ELSE /\ res # Raise("IndexError", "category_names")
                  /\ res.kind = "saved" => res.category = id
                  /\ note.pc = "loop" => note.category = id

\* C12's case: an attribute byte with high bits set whose low four bits are
\* not below the three names read, and the extract_image that fails on it.
C12_Witness ==
    /\ op = "extract_image" /\ arg = 0 /\ Len(category_names) = 3
    /\ mainRecs[Len(mainRecs)].attr >= 16
    /\ rec_data_offset_dict[images[1]] \in 3..15
    /\ res = Raise("IndexError", "category_names")

-----------------------------------------------------------------------------
(* Notes: one image with a noteUID, over every note container that has up  *)
(* to MaxNoteBytes bytes from the note's offset on, with the note in the    *)
(* note dictionary and without.  Once extract_image is in its loop the     *)
(* interpreter keeps running it: the loop's steps are weakly fair.  A call *)
(* is made only if a caller makes it.                                      *)

\* NUL, "h", "i".
NoteBytes == {0, 104, 105}

NoteFiles ==
    {(160 :> h @@ 320 :> HGray @@ 480 :> HGray) : h \in {HGrayNote, HColor9}}

InitNote ==
    /\ InitFiles({<<[off |-> 160, attr |-> 240]>>}, NoteFiles, {2}, {102},
                 {48}, {FullAvail}, NoteRecsSet,
                 [NoteOffsets -> SeqsUpTo(NoteBytes, MaxNoteBytes)], {"none"})
    /\ InitCatalog
    /\ dec = Idle

SpecNote ==
    InitNote /\ [][NextExtract]_vars /\ WF_vars(NoteStep) /\ WF_vars(NoteFinish)

\* The bytes of s before its first NUL; all of s if it has none.
BeforeNul(s) ==
    LET nuls == {i \in 1..Len(s) : s[i] = 0}
    IN IF nuls = {} THEN s
       ELSE SubSeq(s, 1, (CHOOSE i \in nuls : \A j \in nuls : i <= j) - 1)

\* C15: the read of the note text of an image with a nonzero noteUID always
\* comes to an end, whatever the note container holds, a container with no
\* NUL between the note's offset and the end of the file included; and the
\* text it gives is the bytes before the first NUL.
C15_NoteReadTerminates ==
    /\ [](note.pc = "loop" => <>(note.pc # "loop"))
    /\ []((/\ op = "extract_image" /\ res.kind = "saved"
           /\ ImageNrOfCall \in 0..(count - 1)
           /\ hdrAt[images[ImageNrOfCall + 1]].note
                  \in DOMAIN rec_data_offset_note_dict) =>
              res.text =
                 BeforeNul(noteTail[rec_data_offset_note_dict[
                              hdrAt[images[ImageNrOfCall + 1]].note]]))

=============================================================================
